---- MODULE Spec2Model ----
(***************************************************************************)
(* BusDriver: the bulk move / delete / drag-and-drop orchestration of      *)
(* ConnectionsProvider over a Service Bus broker, and the connection store *)
(* (in-memory list, globalState metadata, secret storage).                 *)
(***************************************************************************)
EXTENDS Integers, Sequences, FiniteSets, TLC

\* ---------------------------------------------------------------- bounds
\* sequence numbers the broker has handed out per queue before the run
MaxSeq == 2
\* largest batch handed to a bulk operation
MaxBatch == 2
\* broker calls that may throw during one run
MaxFaults == 1
\* largest number of connections the user adds
MaxConnections == 2
\* addConnection invocations whose prompts can be open at once
MaxPrompts == 2
\* webview panels created in one behaviour
MaxPanels == 2
\* messages other clients send to the panel's queue while the panel is in use
MaxArrivals == 1
\* webview messages posted and not yet handled
MaxInbox == 1
\* largest value of a message property, enqueue time or delivery count
MaxProp == 1
\* _update calls begun on the panel
MaxUpdates == 2

\* ------------------------------------------------------ program constants
maxAttempts == 5
maxMessageCount == 100
\* receiver.peekMessages(50)
maxPeek == 50

\* ------------------------------------------------------------ vocabulary
QueueNames == {"qa", "qb"}
\* the queue whose panel the snapshots of a batch were taken from
PanelQueue == "qa"
\* the queue tree item a drag is dropped on
DropTarget == "qb"
NoQueue == "undefined"
ConnId == 1
CS == "Endpoint=sb://ns"
\* the connection string of the connections other than ConnId
OtherCS == "Endpoint=sb://other"
NoError == <<"none", 0>>
SendError == <<"send failed", 0>>
ReceiveError == <<"receive failed", 0>>
CompleteError == <<"complete failed", 0>>
AbandonError == <<"abandon failed", 0>>
CloseError == <<"close failed", 0>>
ConnectionStringMissing == <<"Connection string missing", 0>>
NotFoundError(sequenceNumber) == <<"Message not found in queue", sequenceNumber>>

Min(a, b) == IF a < b THEN a ELSE b

RECURSIVE SortedSeq(_)
SortedSeq(S) ==
    IF S = {} THEN <<>>
    ELSE LET m == CHOOSE x \in S : \A y \in S : x <= y
         IN <<m>> \o SortedSeq(S \ {m})

\* the id of the message that queue q holds under sequence number s
MsgId(q, s) == <<q, s>>

\* a message as the broker holds it
BrokerMessage(q, s) ==
    [sequenceNumber |-> s, messageId |-> MsgId(q, s), originalSequenceNumber |-> 0]

\* a queue holding the messages with the sequence numbers S, oldest first
QueueOf(q, S) == [n \in 1..Cardinality(S) |-> BrokerMessage(q, SortedSeq(S)[n])]

\* MessageData: the snapshot the webview hands to the commands
Snapshot(q, s, withQueue, withCS) ==
    [sequenceNumber |-> s,
     messageId |-> MsgId(q, s),
     sourceQueue |-> IF withQueue THEN q ELSE NoQueue,
     sourceConnectionString |-> IF withCS THEN CS ELSE ""]

Provenance == {<<TRUE, TRUE>>, <<FALSE, FALSE>>, <<TRUE, FALSE>>}

MessageData ==
    {Snapshot(PanelQueue, s, p[1], p[2]) : s \in 1..MaxSeq, p \in Provenance}

\* the webview builds a batch from the selected rows, no row twice, and puts
\* the panel's queue and connection string on every message of the batch
Batches ==
    {b \in UNION {[1..n -> MessageData] : n \in 0..MaxBatch} :
        \A m, n \in DOMAIN b :
            /\ m # n => b[m].sequenceNumber # b[n].sequenceNumber
            /\ b[m].sourceQueue = b[n].sourceQueue
            /\ b[m].sourceConnectionString = b[n].sourceConnectionString}

VARIABLES
    queues,         \* broker: queue name -> sequence of messages
    locked,         \* broker: per receive call, the <<queue, sequenceNumber>> it left peek-locked
    nextSeq,        \* broker: queue name -> next sequence number to assign
    secrets,        \* context.secrets: connection id -> connection string ("" = undefined)
    kind,           \* which bulk operation runs: "none", "move", "delete", "drop"
    messages,       \* the normalised batch
    targetQueue,    \* target queue name of a move / drop
    i,              \* index of the loop's current item
    results,        \* [successful, failed] of the running operation
    ranLoop,        \* TRUE once results were constructed and the item loop entered
    pc,             \* position of the single control flow
    del,            \* locals of the running deleteMessageFromQueue
    open,           \* broker handles opened and not closed
    faults,         \* broker calls that have thrown so far
    notifications,  \* messages shown through vscode.window.show*Message
    calls,          \* history: item index -> broker calls made on its behalf
    caught,         \* history: item index -> error its catch block received
    started,        \* history: item index -> number of times its loop body began
    lastCallItem,   \* history: item index of the most recent broker call
    ret,            \* history: what the last deleteMessageFromQueue left behind
    queues0,        \* history: broker contents when the operation began
    connections,    \* ConnectionsProvider.connections
    globalState,    \* context.globalState 'connections'
    nextId,         \* stands for generateId(): the next fresh id
    prompts,        \* addConnection invocations waiting at their second input box
    entered,        \* history: connection id -> connection string addConnection saved for it
    removed,        \* history: ids of the connections deleteConnection removed
    panels,         \* the webview panels that exist (ids of vscode.WebviewPanel objects)
    currentPanel,   \* QueueMessagesPanel.currentPanel
    nextPanel,      \* the id the next created webview panel gets
    displayed,      \* the webview's messages: the rows of the last view update
    lastUpdate,     \* history: the broker calls of the last view update
    inbox,          \* webview.postMessage calls the extension has not handled yet
    pendingDragMessage, \* QueueMessagesPanel.pendingDragMessage
    dataTransfer,   \* the payloads the webview set on the drag in progress
    handed,         \* history: what the step just taken handed to a move or delete path
    snapshot,       \* the MessageData that sendMessageToQueue is given
    sent,           \* the message sendMessageToQueue passed to sender.sendMessages
    posted,         \* panel.webview.postMessage calls the webview has not been handed yet
    title,          \* _panel.title: the queue name it shows
    html,           \* _panel.webview.html: its heading, the queue peeked for its rows
    updates,        \* the _update calls begun, in order, and how far each has got
    ops,            \* two deleteMessageFromQueue calls running side by side: where each is
    isActive,       \* the extension's activate function has run
    registered,     \* the command ids registered with vscode.commands
    dialog          \* the modal or quick pick a command handler opened, and its answer

brokerVars == <<queues, locked, nextSeq>>
opVars == <<kind, messages, targetQueue, i, results, ranLoop, pc, del, open,
            faults, notifications, calls, caught, started, lastCallItem, ret, queues0>>
connVars == <<connections, globalState, nextId, prompts, entered, removed>>
viewVars == <<panels, currentPanel, nextPanel, displayed, lastUpdate>>
dragVars == <<inbox, pendingDragMessage, dataTransfer, handed>>
updVars == <<title, html, updates>>
uiVars == <<viewVars, dragVars, posted, updVars>>
sendVars == <<snapshot, sent>>
hostVars == <<isActive, registered, dialog>>
vars == <<brokerVars, secrets, opVars, connVars, uiVars, sendVars, hostVars, ops>>

\* ----------------------------------------------------------------- broker
Seqs(q) == {queues[q][n].sequenceNumber : n \in 1..Len(queues[q])}

\* messages of q a receiver can be handed: those not under a peek lock
Unlocked(q) == SelectSeq(queues[q], LAMBDA m : <<q, m.sequenceNumber>> \notin UNION locked)

Remove(q, s) == SelectSeq(queues[q], LAMBDA m : m.sequenceNumber # s)

\* context.secrets.get(`connection.${connectionId}`)
getConnectionString(connectionId) == secrets[connectionId]

NoDel == [queueName |-> NoQueue, sequenceNumber |-> 0, attempt |-> 0, found |-> FALSE,
          received |-> <<>>, seen |-> {}, completed |-> {}, receives |-> <<>>]
NoRet == [called |-> FALSE, queueName |-> NoQueue, sequenceNumber |-> 0, error |-> NoError,
          attempts |-> 0, seen |-> {}, held |-> {}, completed |-> {}, receives |-> <<>>]
NoResults == [successful |-> <<>>, failed |-> <<>>]

BrokerInit ==
    /\ queues \in {[q \in QueueNames |-> IF q = PanelQueue THEN QueueOf(q, S) ELSE <<>>] :
                       S \in {first..MaxSeq : first \in 1..MaxSeq + 1}}
    /\ locked = {}
    /\ nextSeq = [q \in QueueNames |-> MaxSeq + 1]

Callers == {1, 2}
NoOp == [sequenceNumber |-> 0, pc |-> "idle", attempt |-> 0, received |-> <<>>,
         found |-> FALSE, completed |-> {}, error |-> NoError]

OpInit ==
    /\ ops = [p \in Callers |-> NoOp]
    /\ kind = "none"
    /\ messages = <<>>
    /\ targetQueue = NoQueue
    /\ i = 0
    /\ results = NoResults
    /\ ranLoop = FALSE
    /\ pc = "idle"
    /\ del = NoDel
    /\ open = {}
    /\ faults = 0
    /\ notifications = <<>>
    /\ calls = <<>>
    /\ caught = <<>>
    /\ started = <<>>
    /\ lastCallItem = 0
    /\ ret = NoRet
    /\ queues0 = queues

\* the commands activate registers
Commands ==
    {"busdriver.addConnection", "busdriver.refresh", "busdriver.deleteConnection",
     "busdriver.showQueueMessages", "busdriver.moveMessageToQueue",
     "busdriver.deleteMessages"}

NoDialog == [command |-> "none", data |-> <<>>, answer |-> "none"]

\* the extension is active and no command handler is waiting for the user
HostActive ==
    /\ isActive = TRUE
    /\ registered = Commands
    /\ dialog = NoDialog

NoPrompt == [stage |-> "none", name |-> ""]

ConnIdle ==
    /\ connections = <<>>
    /\ globalState = <<>>
    /\ nextId = 1
    /\ prompts = [p \in 1..MaxPrompts |-> NoPrompt]
    /\ entered = [id \in 1..MaxConnections |-> ""]
    /\ removed = {}

NoPanel == [id |-> 0, queue |-> NoQueue, connectionId |-> 0, connectionString |-> ""]
NoUpdate == [count |-> 0, requested |-> 0, calls |-> {}, connectionString |-> ""]
NoPending == [set |-> FALSE, data |-> <<>>]
NoPayload == [present |-> FALSE, value |-> <<>>]
NoTransfer == [set |-> FALSE, list |-> <<>>, uri |-> NoPayload, plain |-> NoPayload]
NoHanded == [path |-> "none", sent |-> FALSE, messages |-> <<>>, queue |-> NoQueue,
             connectionString |-> "", pending |-> FALSE, uri |-> "absent",
             plain |-> "absent", dragged |-> <<>>]

\* no call of sendMessageToQueue is being looked at
NoSnapshot == [sequenceNumber |-> 0]
NotSent == [prepared |-> FALSE]

NoHtml == [heading |-> NoQueue, peeked |-> NoQueue, update |-> 0]
\* no panel yet, no _update begun
UpdIdle ==
    /\ title = NoQueue
    /\ html = NoHtml
    /\ updates = <<>>

UiIdle ==
    /\ panels = {}
    /\ currentPanel = NoPanel
    /\ nextPanel = 1
    /\ displayed = <<>>
    /\ lastUpdate = NoUpdate
    /\ inbox = <<>>
    /\ pendingDragMessage = NoPending
    /\ dataTransfer = NoTransfer
    /\ handed = NoHanded
    /\ snapshot = NoSnapshot
    /\ sent = NotSent
    /\ posted = <<>>
    /\ UpdIdle

Init ==
    /\ BrokerInit
    /\ secrets \in {[id \in 1..MaxConnections |-> IF id = ConnId THEN c ELSE ""] : c \in {CS, ""}}
    /\ OpInit
    /\ HostActive
    /\ ConnIdle
    /\ UiIdle

\* ------------------------------------------------- bulk operations: entry
Begin(k, batch, target) ==
    /\ kind' = k
    /\ messages' = batch
    /\ targetQueue' = target
    /\ i' = 1
    /\ results' = NoResults
    /\ ranLoop' = TRUE
    /\ pc' = "item"
    /\ calls' = [n \in 1..Len(batch) |-> {}]
    /\ caught' = [n \in 1..Len(batch) |-> NoError]
    /\ started' = [n \in 1..Len(batch) |-> 0]
    /\ UNCHANGED <<del, open, faults, notifications, lastCallItem, ret, queues0>>

\* the early return of an entry point: one error message, no loop
Reject(k, batch, target, text) ==
    /\ kind' = k
    /\ messages' = batch
    /\ targetQueue' = target
    /\ pc' = "done"
    /\ notifications' = Append(notifications,
                               [severity |-> "error", text |-> text, count |-> 0,
                                ids |-> <<>>, details |-> <<>>])
    /\ calls' = [n \in 1..Len(batch) |-> {}]
    /\ caught' = [n \in 1..Len(batch) |-> NoError]
    /\ started' = [n \in 1..Len(batch) |-> 0]
    /\ UNCHANGED <<i, results, ranLoop, del, open, faults, lastCallItem, ret, queues0>>

moveMessageToQueue(messageData, target) ==
    /\ pc = "idle"
    /\ IF getConnectionString(ConnId) = ""
       THEN Reject("move", messageData, target, "Connection string not found for target queue")
       ELSE Begin("move", messageData, target)
    /\ UNCHANGED <<brokerVars, secrets, hostVars, ops, connVars, sendVars, uiVars>>

deleteMessages(messageData) ==
    /\ pc = "idle"
    /\ IF Len(messageData) = 0
       THEN \* messages[0] is undefined: reading firstMessage.sourceQueue throws
            /\ kind' = "delete"
            /\ messages' = messageData
            /\ pc' = "threw"
            /\ calls' = <<>>
            /\ caught' = <<>>
            /\ started' = <<>>
            /\ UNCHANGED <<targetQueue, i, results, ranLoop, del, open, faults,
                           notifications, lastCallItem, ret, queues0>>
       ELSE IF messageData[1].sourceQueue = NoQueue
                 \/ messageData[1].sourceConnectionString = ""
       THEN Reject("delete", messageData, NoQueue,
                   "Cannot delete message: source queue information missing")
       ELSE Begin("delete", messageData, NoQueue)
    /\ UNCHANGED <<brokerVars, secrets, hostVars, ops, connVars, sendVars, uiVars>>

processMessageMove(target, messageData) ==
    /\ pc = "idle"
    /\ IF getConnectionString(ConnId) = ""
       THEN Reject("drop", messageData, target, "Connection string not found for target queue")
       ELSE /\ Begin("drop", messageData, target)
    /\ UNCHANGED <<brokerVars, secrets, hostVars, ops, connVars, sendVars, uiVars>>

\* ------------------------------------------------ bulk operations: helpers
Copy(msg, n) ==
    [sequenceNumber |-> n, messageId |-> msg.messageId,
     originalSequenceNumber |-> msg.sequenceNumber]

Notification(severity, text, count, ids, details) ==
    [severity |-> severity, text |-> text, count |-> count, ids |-> ids, details |-> details]

ResultNotificationSwapped(r, messageCount) ==
    IF Len(r.failed) = 0
    THEN Notification("information", "all succeeded", messageCount, <<>>, <<>>)
    ELSE IF Len(r.successful) = 0
    THEN Notification("warning", "partial", Len(r.successful), <<>>,
                      [n \in 1..Len(r.failed) |->
                          <<r.failed[n].message.messageId, r.failed[n].error>>])
    ELSE Notification("error", "all failed", messageCount,
                      [n \in 1..Len(r.failed) |-> r.failed[n].message.messageId], <<>>)

\* the "Show results notification" block of moveMessageToQueue / deleteMessages
ResultNotification(r, messageCount) ==
    IF Len(r.failed) = 0
    THEN Notification("information", "all succeeded", messageCount, <<>>, <<>>)
    ELSE IF Len(r.successful) = 0
    THEN Notification("error", "all failed", messageCount,
                      [n \in 1..Len(r.failed) |-> r.failed[n].message.messageId], <<>>)
    ELSE Notification("warning", "partial", Len(r.successful), <<>>,
                      [n \in 1..Len(r.failed) |->
                          <<r.failed[n].message.messageId, r.failed[n].error>>])

PushSuccessfulLost(r, msg) == r
PushSuccessfulFront(r, msg) == [r EXCEPT !.successful = <<msg>> \o @]
PushSuccessful(r, msg) == [r EXCEPT !.successful = Append(@, msg)]
PushFailedLost(r, msg, e) == r
PushFailed(r, msg, e) == [r EXCEPT !.failed = Append(@, [message |-> msg, error |-> e])]

HasSource(msg) == msg.sourceQueue # NoQueue /\ msg.sourceConnectionString # ""

\* the finally block of a broker helper: close the link, then the client
CloseOutcomes == {"closed", "link close throws", "client close throws"}

\* the handles a finally block leaves open
Leaked(o, link, client) ==
    IF o = "closed" THEN {}
    ELSE IF o = "link close throws" THEN {link, client}
    ELSE {client}

PropagatedSwallowed(o, e) == IF o = "closed" THEN NoError ELSE CloseError
\* the error that leaves a helper whose try block ended with e (NoError: normally)
Propagated(o, e) == IF o = "closed" THEN e ELSE CloseError

FaultsOf(threw, o) == (IF threw THEN 1 ELSE 0) + (IF o = "closed" THEN 0 ELSE 1)

\* entering deleteMessageFromQueue(queueName, connectionString, sequenceNumber)
EnterDelete(queueName, sequenceNumber) ==
    [NoDel EXCEPT !.queueName = queueName, !.sequenceNumber = sequenceNumber]

\* ------------------------------------------------- the panel's view update
\* the message bodies of the model: characters JSON and URIs treat specially
Bodies == << <<"a", " ">>, <<"%", "2", "2">>, <<"\"", "\\">> >>
Body(m) == Bodies[(m.sequenceNumber % Len(Bodies)) + 1]

\* the row the webview keeps for a peeked message: no provenance fields
Row(m) ==
    [sequenceNumber |-> m.sequenceNumber, body |-> Body(m),
     sourceQueue |-> NoQueue, sourceConnectionString |-> ""]

peekMessagesReceives(q, maxCount) ==
    LET got == SubSeq(Unlocked(q), 1, Min(maxCount, Len(Unlocked(q))))
    IN  [messages |-> got,
         locked |-> IF got = <<>> THEN locked
                    ELSE locked \cup {{<<q, got[n].sequenceNumber>> : n \in 1..Len(got)}},
         calls |-> {"receive"}]

\* receiver.peekMessages(maxCount): the oldest messages, locked or not, and
\* no lock taken
peekMessages(q, maxCount) ==
    [messages |-> SubSeq(queues[q], 1, Min(maxCount, Len(queues[q]))),
     locked |-> locked,
     calls |-> {"peek"}]

\* _update of the panel showing queue q: one _peekMessages over a client made
\* from the panel's connection string, then the html
ViewUpdate(q, connectionString) ==
    LET r == peekMessages(q, maxPeek)
    IN  /\ displayed' = [n \in 1..Len(r.messages) |-> Row(r.messages[n])]
        /\ locked' = r.locked
        /\ lastUpdate' = [count |-> Len(r.messages), requested |-> maxPeek,
                          calls |-> r.calls,
                          connectionString |-> connectionString]
        /\ title' = q
        /\ html' = [heading |-> q, peeked |-> q, update |-> Len(updates)]

\* notifyMessageRemoved(sequenceNumber): the message it posts to the webview
notifyMessageRemoved(sequenceNumber) ==
    [command |-> "removeMessage", sequenceNumber |-> sequenceNumber]

\* ------------------------------------------------- bulk operations: steps
\* "Show results notification" and the end of the handler
showResults ==
    /\ pc = "item"
    /\ i > Len(messages)
    /\ notifications' = Append(notifications,
          IF kind = "drop"
          THEN Notification("information", "moved", Len(messages), <<>>, <<>>)
          ELSE ResultNotification(results, Len(messages)))
    /\ pc' = "done"
    /\ LET removedRows == IF kind = "drop" THEN messages ELSE results.successful
       IN  IF currentPanel = NoPanel \/ Len(removedRows) = 0
           THEN UNCHANGED <<locked, uiVars>>
           ELSE IF kind = "delete"
           THEN \* await QueueMessagesPanel.currentPanel.refreshView()
                /\ ViewUpdate(currentPanel.queue, currentPanel.connectionString)
                /\ UNCHANGED <<panels, currentPanel, nextPanel, dragVars, posted, updates>>
           ELSE \* notifyMessageRemoved(msg.sequenceNumber) for each of them
                /\ posted' = posted \o [n \in 1..Len(removedRows) |->
                                           notifyMessageRemoved(removedRows[n].sequenceNumber)]
                /\ UNCHANGED <<locked, viewVars, dragVars, updVars>>
    /\ UNCHANGED <<queues, nextSeq, secrets, hostVars, ops, connVars, sendVars, kind, messages, targetQueue, i,
                   results, ranLoop, del, open, faults, calls, caught, started, lastCallItem,
                   ret, queues0>>

\* one call of sendMessageToQueue (sendMessages, then the finally block) and
\* what the caller's loop body does with its outcome
sendMessageToQueue(ok, o) ==
    /\ pc = "item"
    /\ kind \in {"move", "drop"}
    /\ i <= Len(messages)
    /\ faults + FaultsOf(~ok, o) <= MaxFaults
    /\ faults' = faults + FaultsOf(~ok, o)
    /\ started' = [started EXCEPT ![i] = @ + 1]
    /\ open' = open \cup Leaked(o, "sender", "sendClient")
    /\ IF ok
       THEN /\ queues' = [queues EXCEPT ![targetQueue] =
                             Append(@, Copy(messages[i], nextSeq[targetQueue]))]
            /\ nextSeq' = [nextSeq EXCEPT ![targetQueue] = @ + 1]
       ELSE UNCHANGED <<queues, nextSeq>>
    /\ LET e == Propagated(o, IF ok THEN NoError ELSE SendError)
           msg == messages[i]
       IN  /\ calls' = [calls EXCEPT ![i] = @ \cup {"send"}
                           \cup (IF ok THEN {} ELSE {"sendMessages threw"})
                           \cup (IF ok /\ o = "closed" THEN {} ELSE {"call threw"})
                           \cup (IF e = NoError THEN {"send returned"} ELSE {})]
           /\ caught' = [caught EXCEPT ![i] = e]
           /\ IF e # NoError
              THEN IF kind = "move"
                   THEN /\ results' = PushFailed(results, msg, e)
                        /\ i' = i + 1
                        /\ UNCHANGED <<pc, del, notifications>>
                   ELSE \* processMessageMove: the outer catch ends the operation
                        /\ notifications' = Append(notifications,
                              Notification("error", "Failed to move message(s)", 0,
                                           <<>>, <<e>>))
                        /\ pc' = "done"
                        /\ UNCHANGED <<results, i, del>>
              ELSE IF kind = "move" /\ HasSource(msg)
                   THEN /\ del' = EnterDelete(msg.sourceQueue, msg.sequenceNumber)
                        /\ pc' = "recv"
                        /\ UNCHANGED <<results, i, notifications>>
                   ELSE /\ results' = IF kind = "move"
                                      THEN PushSuccessful(results, msg) ELSE results
                        /\ i' = i + 1
                        /\ UNCHANGED <<pc, del, notifications>>
    /\ lastCallItem' = i
    /\ ret' = NoRet
    /\ UNCHANGED <<locked, secrets, hostVars, ops, connVars, sendVars, uiVars, kind, messages, targetQueue, ranLoop,
                   queues0>>

sendMessagesOk == \E o \in CloseOutcomes : sendMessageToQueue(TRUE, o)
sendMessagesThrows == \E o \in CloseOutcomes : sendMessageToQueue(FALSE, o)

\* the body of deleteMessages' loop up to the call of deleteMessageFromQueue
deleteItem ==
    /\ pc = "item"
    /\ kind = "delete"
    /\ i <= Len(messages)
    /\ started' = [started EXCEPT ![i] = @ + 1]
    /\ IF messages[i].sourceConnectionString = ""
       THEN /\ results' = PushFailed(results, messages[i], ConnectionStringMissing)
            /\ caught' = [caught EXCEPT ![i] = ConnectionStringMissing]
            /\ i' = i + 1
            /\ UNCHANGED <<pc, del>>
       ELSE \* queueName is the first message's source queue
            /\ del' = EnterDelete(messages[1].sourceQueue, messages[i].sequenceNumber)
            /\ pc' = "recv"
            /\ UNCHANGED <<results, i, caught>>
    /\ ret' = NoRet
    /\ UNCHANGED <<brokerVars, secrets, hostVars, ops, connVars, sendVars, uiVars, kind, messages, targetQueue, ranLoop,
                   open, faults, notifications, calls, lastCallItem, queues0>>

\* --------------------------------------------------- deleteMessageFromQueue
\* how many messages one receiveMessages(maxMessageCount) call can hand back:
\* none once maxWaitTimeInMs passes on an empty queue, otherwise anything from
\* one message to all that are available; the two extremes are explored
ReceiveCounts(q) ==
    LET available == Min(maxMessageCount, Len(Unlocked(q)))
    IN  IF available = 0 THEN {0} ELSE {1, available}

MatchesAny(message, sequenceNumber) == TRUE
\* message.sequenceNumber?.toString() === sequenceNumber
Matches(message, sequenceNumber) == message.sequenceNumber = sequenceNumber

AfterAttemptNoThrow(d) ==
    IF ~d.found /\ Len(d.received) = 0
    THEN [pc |-> "return", exc |-> NoError, attempt |-> d.attempt]
    ELSE IF d.attempt + 1 < maxAttempts /\ ~d.found
    THEN [pc |-> "recv", exc |-> NoError, attempt |-> d.attempt + 1]
    ELSE [pc |-> "return", exc |-> NoError, attempt |-> d.attempt + 1]

AfterAttemptUnbounded(d) ==
    IF ~d.found /\ Len(d.received) = 0
    THEN [pc |-> "return", exc |-> NotFoundError(d.sequenceNumber), attempt |-> d.attempt]
    ELSE IF ~d.found
    THEN [pc |-> "recv", exc |-> NoError, attempt |-> d.attempt + 1]
    ELSE [pc |-> "return", exc |-> NoError, attempt |-> d.attempt + 1]

\* control after the inner for loop of one attempt: the break, the loop
\* condition, and the "not found" throw after the loop
AfterAttempt(d) ==
    IF ~d.found /\ Len(d.received) = 0
    THEN [pc |-> "return", exc |-> NotFoundError(d.sequenceNumber), attempt |-> d.attempt]
    ELSE IF d.attempt + 1 < maxAttempts /\ ~d.found
    THEN [pc |-> "recv", exc |-> NoError, attempt |-> d.attempt + 1]
    ELSE [pc |-> "return",
          exc |-> IF d.found THEN NoError ELSE NotFoundError(d.sequenceNumber),
          attempt |-> d.attempt + 1]

\* One pass of the attempt loop: receiveMessages hands back n messages (or
\* throws), and the inner loop settles the first m of them: each one matching
\* the target is completed, each other one abandoned.  m < n: the settlement
\* of message m + 1 throws.
Attempt(n, m, receiveThrows) ==
    LET q == del.queueName
        batch == SubSeq(Unlocked(q), 1, n)
        hit == {k \in 1..m : Matches(batch[k], del.sequenceNumber)}
        completedNow == {batch[k].sequenceNumber : k \in hit}
        abandonedNow == {batch[k].sequenceNumber : k \in (1..m) \ hit}
        held == {batch[k].sequenceNumber : k \in (m + 1)..n}
        thrown == IF receiveThrows THEN ReceiveError
                  ELSE IF m = n THEN NoError
                  ELSE IF Matches(batch[m + 1], del.sequenceNumber) THEN CompleteError
                  ELSE AbandonError
        d == [del EXCEPT !.received = batch,
                         !.receives = Append(@, maxMessageCount),
                         !.found = @ \/ completedNow # {},
                         !.seen = @ \cup {batch[k].sequenceNumber : k \in 1..n},
                         !.completed = @ \cup completedNow]
        a == AfterAttempt(d)
    IN  [queue |-> SelectSeq(queues[q], LAMBDA x : x.sequenceNumber \notin completedNow),
         locked |-> IF held = {} THEN locked ELSE locked \cup {{<<q, s>> : s \in held}},
         held |-> held,
         thrown |-> thrown,
         goesOn |-> thrown = NoError /\ a.pc = "recv",
         exc |-> IF thrown # NoError THEN thrown ELSE a.exc,
         del |-> [d EXCEPT !.attempt = IF thrown # NoError THEN @ ELSE a.attempt],
         made |-> {"receive"}
                  \cup (IF completedNow # {} \/ thrown = CompleteError
                        THEN {"complete"} ELSE {})
                  \cup (IF abandonedNow # {} \/ thrown = AbandonError
                        THEN {"abandon"} ELSE {})
                  \cup (IF thrown # NoError THEN {"call threw"} ELSE {})]

\* an attempt after which the for loop of deleteMessageFromQueue goes round again
scanAttempt ==
    /\ pc = "recv"
    /\ \E n \in ReceiveCounts(del.queueName) :
        LET r == Attempt(n, n, FALSE)
        IN  /\ r.goesOn
            /\ queues' = [queues EXCEPT ![del.queueName] = r.queue]
            /\ locked' = r.locked
            /\ del' = r.del
            /\ calls' = [calls EXCEPT ![i] = @ \cup r.made]
    /\ lastCallItem' = i
    /\ UNCHANGED <<nextSeq, secrets, hostVars, ops, connVars, sendVars, uiVars, kind, messages, targetQueue, i, results,
                   ranLoop, pc, open, faults, notifications, caught, started, ret,
                   queues0>>

\* the attempt on which deleteMessageFromQueue is left (target completed, not
\* found, or a broker call throwing), its finally block, and the caller's
\* try / catch around it
Leave(r, o) ==
    LET e == Propagated(o, r.exc)
        msg == messages[i]
    IN  /\ ~r.goesOn
        /\ faults + FaultsOf(r.thrown # NoError, o) <= MaxFaults
        /\ faults' = faults + FaultsOf(r.thrown # NoError, o)
        /\ queues' = [queues EXCEPT ![del.queueName] = r.queue]
        /\ locked' = r.locked
        /\ open' = open \cup Leaked(o, "receiver", "receiveClient")
        /\ calls' = [calls EXCEPT ![i] = @ \cup r.made
                        \cup (IF o = "closed" THEN {} ELSE {"call threw"})
                        \cup (IF e = NoError THEN {"delete returned"} ELSE {})]
        /\ caught' = [caught EXCEPT ![i] = e]
        /\ results' = IF e # NoError THEN PushFailed(results, msg, e)
                      ELSE PushSuccessful(results, msg)
        /\ ret' = [called |-> TRUE, queueName |-> del.queueName,
                   sequenceNumber |-> del.sequenceNumber, error |-> e,
                   attempts |-> r.del.attempt, seen |-> r.del.seen,
                   held |-> r.held, completed |-> r.del.completed,
                   receives |-> r.del.receives]

deleteMessageFromQueue ==
    /\ pc = "recv"
    /\ \E o \in CloseOutcomes :
          \/ Leave(Attempt(0, 0, TRUE), o)
          \/ \E n \in ReceiveCounts(del.queueName) :
                \E m \in 0..n : Leave(Attempt(n, m, FALSE), o)
    /\ lastCallItem' = i
    /\ del' = NoDel
    /\ i' = i + 1
    /\ pc' = "item"
    /\ UNCHANGED <<nextSeq, secrets, hostVars, ops, connVars, sendVars, uiVars, kind, messages, targetQueue, ranLoop,
                   notifications, started, queues0>>

\* the broker releases a peek lock nobody settled once its lock duration is over
lockExpires ==
    /\ \E l \in locked : locked' = locked \ {l}
    /\ UNCHANGED <<queues, nextSeq, secrets, hostVars, ops, connVars, sendVars, uiVars, opVars>>

Next ==
    \/ \E messageData \in Batches, target \in QueueNames :
          moveMessageToQueue(messageData, target)
    \/ \E messageData \in Batches : deleteMessages(messageData)
    \/ \E messageData \in Batches : processMessageMove(DropTarget, messageData)
    \/ showResults
    \/ sendMessagesOk
    \/ sendMessagesThrows
    \/ deleteItem
    \/ scanAttempt
    \/ deleteMessageFromQueue
    \/ lockExpires

Spec == Init /\ [][Next]_vars

\* the handler's continuations run once the promise they await settles, and
\* every broker call settles (receiveMessages waits maxWaitTimeInMs at most)
HandlerStep ==
    \/ showResults
    \/ sendMessagesOk
    \/ deleteItem
    \/ scanAttempt
    \/ deleteMessageFromQueue

SpecFair == Spec /\ WF_vars(HandlerStep)

\* ----------------------- two deleteMessageFromQueue calls, await by await
\* a bulk operation reaches deleteMessageFromQueue(PanelQueue, ..., sequenceNumber)
\* for a message that is in the queue and that the other operation does not target
deleteMessageFromQueueEnters(p, sequenceNumber) ==
    /\ ops[p].pc = "idle"
    /\ sequenceNumber \in Seqs(PanelQueue)
    /\ \A o \in Callers \ {p} : ops[o].sequenceNumber # sequenceNumber
    /\ ops' = [ops EXCEPT ![p] = [NoOp EXCEPT !.sequenceNumber = sequenceNumber,
                                             !.pc = "recv"]]
    /\ UNCHANGED <<brokerVars, secrets, opVars, connVars, uiVars, sendVars, hostVars>>

\* await receiver.receiveMessages(100, ...) of caller p returns: the messages
\* handed over are under p's peek lock until p settles them
receiveMessages(p) ==
    /\ ops[p].pc = "recv"
    /\ \E n \in ReceiveCounts(PanelQueue) :
        LET batch == SubSeq(Unlocked(PanelQueue), 1, n)
        IN  /\ ops' = [ops EXCEPT ![p].received = batch, ![p].pc = "settle"]
            /\ locked' = IF n = 0 THEN locked
                         ELSE locked \cup {{<<PanelQueue, batch[k].sequenceNumber>> : k \in 1..n}}
    /\ UNCHANGED <<queues, nextSeq, secrets, opVars, connVars, uiVars, sendVars, hostVars>>

\* the inner for loop of caller p over what it received (the target is
\* completed, every other message abandoned), then the break, the loop
\* condition and the throw after the loop
settleMessages(p) ==
    /\ ops[p].pc = "settle"
    /\ LET batch == ops[p].received
           hit == {batch[k].sequenceNumber : k \in {k \in 1..Len(batch) :
                                   Matches(batch[k], ops[p].sequenceNumber)}}
           d == [ops[p] EXCEPT !.found = @ \/ hit # {}, !.completed = @ \cup hit]
           a == AfterAttempt(d)
       IN  /\ queues' = [queues EXCEPT ![PanelQueue] =
                            SelectSeq(@, LAMBDA x : x.sequenceNumber \notin hit)]
           /\ locked' = locked \ {{<<PanelQueue, batch[k].sequenceNumber>> : k \in 1..Len(batch)}}
           /\ ops' = [ops EXCEPT ![p] = [d EXCEPT !.attempt = a.attempt,
                                                  !.received = <<>>,
                                                  !.error = a.exc,
                                                  !.pc = IF a.pc = "recv" THEN "recv" ELSE "done"]]
    /\ UNCHANGED <<nextSeq, secrets, opVars, connVars, uiVars, sendVars, hostVars>>

NextTwo ==
    \/ \E p \in Callers, sequenceNumber \in 1..MaxSeq :
          deleteMessageFromQueueEnters(p, sequenceNumber)
    \/ \E p \in Callers : receiveMessages(p)
    \/ \E p \in Callers : settleMessages(p)

SpecTwo == Init /\ [][NextTwo]_vars

\* ------------------------------------------------- activate and commands
activateThreeCommands ==
    {"busdriver.addConnection", "busdriver.refresh", "busdriver.deleteConnection"}
\* the ids activate passes to vscode.commands.registerCommand
activateCommands == Commands

\* activate(context)
activate ==
    /\ ~isActive
    /\ isActive' = TRUE
    /\ registered' = registered \cup activateCommands
    /\ UNCHANGED <<brokerVars, secrets, opVars, connVars, uiVars, sendVars, ops, dialog>>

\* what the user can do with the modal warning of busdriver.deleteMessages
Confirmations == {"Delete", "dismissed"}
\* what getAllQueues can return: no queue, or the queues of the namespace
QueueLists == {{}, QueueNames}

ConfirmedWhatever(confirmation) == TRUE
\* confirmation === 'Delete'
Confirmed(confirmation) == confirmation = "Delete"

\* busdriver.deleteMessages up to its await of the modal warning
deleteMessagesCommand(messageData) ==
    /\ "busdriver.deleteMessages" \in registered
    /\ pc = "idle"
    /\ dialog = NoDialog
    /\ dialog' = [command |-> "busdriver.deleteMessages", data |-> messageData,
                  answer |-> "pending"]
    /\ UNCHANGED <<brokerVars, secrets, opVars, connVars, uiVars, sendVars, ops, isActive,
                   registered>>

\* busdriver.moveMessageToQueue up to its await of the quick pick; with no
\* queue to offer it shows 'No queues available' and returns
moveMessageToQueueCommand(messageData, allQueues) ==
    /\ "busdriver.moveMessageToQueue" \in registered
    /\ pc = "idle"
    /\ dialog = NoDialog
    /\ dialog' = [command |-> "busdriver.moveMessageToQueue", data |-> messageData,
                  answer |-> IF allQueues = {} THEN "No queues available" ELSE "pending"]
    /\ UNCHANGED <<brokerVars, secrets, opVars, connVars, uiVars, sendVars, ops, isActive,
                   registered>>

\* the user answers the modal warning or the quick pick, or dismisses it
userAnswers(answer) ==
    /\ dialog.answer = "pending"
    /\ answer \in (IF dialog.command = "busdriver.deleteMessages"
                   THEN Confirmations ELSE QueueNames \cup {"dismissed"})
    /\ dialog' = [dialog EXCEPT !.answer = answer]
    /\ UNCHANGED <<brokerVars, secrets, opVars, connVars, uiVars, sendVars, ops, isActive,
                   registered>>

\* busdriver.deleteMessages after the modal: if (confirmation === 'Delete')
deleteMessagesConfirmed ==
    /\ dialog.command = "busdriver.deleteMessages"
    /\ dialog.answer # "pending"
    /\ Confirmed(dialog.answer)
    /\ deleteMessages(dialog.data)

\* busdriver.moveMessageToQueue after the quick pick: if (selected)
moveMessageToQueuePicked ==
    /\ dialog.command = "busdriver.moveMessageToQueue"
    /\ dialog.answer \in QueueNames
    /\ moveMessageToQueue(dialog.data, dialog.answer)

\* before activation: nothing registered
CmdInit ==
    /\ BrokerInit
    /\ secrets \in {[id \in 1..MaxConnections |-> IF id = ConnId THEN c ELSE ""] : c \in {CS, ""}}
    /\ OpInit
    /\ isActive = FALSE
    /\ registered = {}
    /\ dialog = NoDialog
    /\ ConnIdle
    /\ UiIdle

NextCmd ==
    \/ activate
    \/ \E messageData \in Batches : deleteMessagesCommand(messageData)
    \/ \E messageData \in Batches, allQueues \in QueueLists :
          moveMessageToQueueCommand(messageData, allQueues)
    \/ \E answer \in Confirmations \cup QueueNames : userAnswers(answer)
    \/ deleteMessagesConfirmed
    \/ moveMessageToQueuePicked
    \/ showResults
    \/ sendMessagesOk
    \/ sendMessagesThrows
    \/ deleteItem
    \/ scanAttempt
    \/ deleteMessageFromQueue
    \/ lockExpires

SpecCmd == CmdInit /\ [][NextCmd]_vars

\* --------------------------------------- deleteMessages on any argument
\* busdriver.deleteMessages is a command of the host: its argument need not
\* come from the panel, so the messages of a batch can differ in their source
\* queue and in the fields they carry
AnyMessageData ==
    {Snapshot(q, s, p[1], p[2]) : q \in QueueNames, s \in 1..MaxSeq, p \in Provenance}

AnyBatches ==
    {b \in UNION {[1..n -> AnyMessageData] : n \in 0..MaxBatch} :
        \A m, n \in DOMAIN b : m # n => b[m].messageId # b[n].messageId}

AnyInit ==
    /\ queues = [q \in QueueNames |-> QueueOf(q, 1..MaxSeq)]
    /\ locked = {}
    /\ nextSeq = [q \in QueueNames |-> MaxSeq + 1]
    /\ secrets = [id \in 1..MaxConnections |-> IF id = ConnId THEN CS ELSE ""]
    /\ OpInit
    /\ HostActive
    /\ ConnIdle
    /\ UiIdle

NextAny ==
    \/ \E messageData \in AnyBatches : deleteMessages(messageData)
    \/ showResults
    \/ deleteItem
    \/ scanAttempt
    \/ deleteMessageFromQueue
    \/ lockExpires

SpecAny == AnyInit /\ [][NextAny]_vars

\* -------------------------------------------------------- connection store
\* what the user can type into the name box / the connection string box
NameInputs == {"", " ", "a", " a", "b"}
ConnectionStringInputs == {"", "x", "Endpoint=sb://one", " Endpoint=sb://two"}

\* String.prototype.trim on the inputs above
trim(value) ==
    CASE value = " " -> ""
      [] value = " a" -> "a"
      [] value = " Endpoint=sb://two" -> "Endpoint=sb://two"
      [] OTHER -> value

\* value.includes('Endpoint=sb://') on the inputs above
includesEndpoint(value) == value \in {"Endpoint=sb://one", " Endpoint=sb://two"}

\* validateInput of the name box: TRUE when it returns null
validateName(value) ==
    /\ ~(value = "" \/ trim(value) = "")
    /\ ~(\E n \in 1..Len(connections) : connections[n].name = trim(value))

\* validateInput of the connection string box: TRUE when it returns null
validateConnectionString(value) ==
    /\ ~(value = "" \/ trim(value) = "")
    /\ includesEndpoint(value)

connectionsToStoreVerbatim(cs) ==
    [n \in 1..Len(cs) |->
        [id |-> cs[n].id, name |-> cs[n].name, connectionString |-> cs[n].connectionString]]

\* the metadata saveConnections writes for the list cs
connectionsToStore(cs) ==
    [n \in 1..Len(cs) |-> [id |-> cs[n].id, name |-> cs[n].name, connectionString |-> ""]]

\* the secrets after saveConnections stored every connection string of cs
RECURSIVE storeSecrets(_, _)
storeSecrets(sec, cs) ==
    IF cs = <<>> THEN sec
    ELSE storeSecrets([sec EXCEPT ![Head(cs).id] = Head(cs).connectionString], Tail(cs))

saveConnections(cs) ==
    /\ secrets' = storeSecrets(secrets, cs)
    /\ globalState' = connectionsToStore(cs)

\* addConnection: the name box is accepted
acceptName(p, value) ==
    /\ prompts[p].stage = "none"
    /\ validateName(value)
    /\ value # ""
    /\ prompts' = [prompts EXCEPT ![p] = [stage |-> "string", name |-> value]]
    /\ UNCHANGED <<brokerVars, secrets, hostVars, ops, opVars, uiVars, sendVars, connections, globalState, nextId, entered,
                   removed>>

\* addConnection: a box is dismissed, the handler returns
cancelPrompt(p) ==
    /\ prompts[p].stage = "string"
    /\ prompts' = [prompts EXCEPT ![p] = NoPrompt]
    /\ UNCHANGED <<brokerVars, secrets, hostVars, ops, opVars, uiVars, sendVars, connections, globalState, nextId, entered,
                   removed>>

\* addConnection: the connection string box is accepted; push, save, refresh
addConnection(p, value) ==
    /\ prompts[p].stage = "string"
    /\ validateConnectionString(value)
    /\ value # ""
    /\ nextId <= MaxConnections
    /\ LET connection == [id |-> nextId, name |-> trim(prompts[p].name),
                          connectionString |-> trim(value)]
       IN  /\ connections' = Append(connections, connection)
           /\ saveConnections(connections')
    /\ nextId' = nextId + 1
    /\ prompts' = [prompts EXCEPT ![p] = NoPrompt]
    /\ entered' = [entered EXCEPT ![nextId] = trim(value)]
    /\ UNCHANGED <<brokerVars, opVars, hostVars, ops, uiVars, sendVars, removed>>

\* the ids of the connections the tree shows
ConnectionIds == {connections[n].id : n \in 1..Len(connections)}

\* deleteConnection(item), confirmed with 'Delete'
deleteConnection(id) ==
    /\ id \in ConnectionIds
    /\ connections' = SelectSeq(connections, LAMBDA c : c.id # id)
    /\ saveConnections(connections')
    /\ removed' = removed \cup {id}
    /\ UNCHANGED <<brokerVars, opVars, hostVars, ops, uiVars, sendVars, nextId, prompts, entered>>

\* a new extension host: the constructor's loadConnections
loadConnections ==
    /\ connections' = globalState
    /\ prompts' = [p \in 1..MaxPrompts |-> NoPrompt]
    /\ UNCHANGED <<brokerVars, secrets, hostVars, ops, opVars, uiVars, sendVars, globalState, nextId, entered, removed>>

ConnInit ==
    /\ queues = [q \in QueueNames |-> <<>>]
    /\ locked = {}
    /\ nextSeq = [q \in QueueNames |-> MaxSeq + 1]
    /\ secrets = [id \in 1..MaxConnections |-> ""]
    /\ OpInit
    /\ HostActive
    /\ ConnIdle
    /\ UiIdle

NextConn ==
    \/ \E p \in 1..MaxPrompts, value \in NameInputs : acceptName(p, value)
    \/ \E p \in 1..MaxPrompts : cancelPrompt(p)
    \/ \E p \in 1..MaxPrompts, value \in ConnectionStringInputs : addConnection(p, value)
    \/ \E id \in 1..MaxConnections : deleteConnection(id)
    \/ loadConnections

SpecConn == ConnInit /\ [][NextConn]_vars

\* ------------------------------------------------- drag payload encoding
\* Text is a sequence of characters; a run of unreserved characters that no
\* conversion looks into (a key, the scheme prefix) is kept as one element.
Digit(n) == <<"0", "1", "2", "3", "4", "5", "6", "7", "8", "9">>[n + 1]
Number(c) == CHOOSE n \in 0..9 : Digit(n) = c
Digits == {Digit(n) : n \in 0..9}

RECURSIVE Flatten(_)
Flatten(ss) == IF ss = <<>> THEN <<>> ELSE Head(ss) \o Flatten(Tail(ss))

\* JSON.stringify of a string
Quote(chars) ==
    <<"\"">>
    \o Flatten([n \in 1..Len(chars) |->
                   IF chars[n] \in {"\"", "\\"} THEN <<"\\", chars[n]>> ELSE <<chars[n]>>])
    \o <<"\"">>

\* JSON.stringify of one dragged row (handleDragStart copies these fields;
\* the provenance fields are not among them)
StringifyRow(row) ==
    <<"{">> \o Quote(<<"sequenceNumber">>) \o <<":">> \o Quote(<<Digit(row.sequenceNumber)>>)
    \o <<",">> \o Quote(<<"body">>) \o <<":">> \o Quote(row.body) \o <<"}">>

\* JSON.stringify(messagesToDrag)
stringify(rows) ==
    <<"[">>
    \o Flatten([n \in 1..Len(rows) |->
                   (IF n = 1 THEN <<>> ELSE <<",">>) \o StringifyRow(rows[n])])
    \o <<"]">>

Failed == [ok |-> FALSE, value |-> <<>>, rest |-> <<>>]
Parsed(value, rest) == [ok |-> TRUE, value |-> value, rest |-> rest]

\* the text after an opening quote, up to the closing one
RECURSIVE ReadString(_, _)
ReadString(t, acc) ==
    IF t = <<>> THEN Failed
    ELSE IF Head(t) = "\"" THEN Parsed(acc, Tail(t))
    ELSE IF Head(t) = "\\"
    THEN IF Len(t) >= 2 /\ t[2] \in {"\"", "\\"}
         THEN ReadString(SubSeq(t, 3, Len(t)), Append(acc, t[2]))
         ELSE Failed
    ELSE ReadString(Tail(t), Append(acc, Head(t)))

ParseString(t) == IF t # <<>> /\ Head(t) = "\"" THEN ReadString(Tail(t), <<>>) ELSE Failed

\* t continues with the characters lit: what follows them
Expect(t, lit) ==
    IF Len(t) >= Len(lit) /\ SubSeq(t, 1, Len(lit)) = lit
    THEN Parsed(<<>>, SubSeq(t, Len(lit) + 1, Len(t)))
    ELSE Failed

ParseRow(t) ==
    LET a == Expect(t, <<"{">> \o Quote(<<"sequenceNumber">>) \o <<":">>)
        s == IF a.ok THEN ParseString(a.rest) ELSE Failed
        b == IF s.ok THEN Expect(s.rest, <<",">> \o Quote(<<"body">>) \o <<":">>) ELSE Failed
        c == IF b.ok THEN ParseString(b.rest) ELSE Failed
        d == IF c.ok THEN Expect(c.rest, <<"}">>) ELSE Failed
    IN  IF d.ok /\ Len(s.value) = 1 /\ s.value[1] \in Digits
        THEN Parsed([sequenceNumber |-> Number(s.value[1]), body |-> c.value,
                     sourceQueue |-> NoQueue, sourceConnectionString |-> ""], d.rest)
        ELSE Failed

\* the rows of a list after its opening bracket
RECURSIVE ParseRows(_, _)
ParseRows(t, acc) ==
    IF t # <<>> /\ Head(t) = "]" /\ acc = <<>> THEN Parsed(acc, Tail(t))
    ELSE LET r == ParseRow(t)
         IN  IF ~r.ok \/ r.rest = <<>> THEN Failed
             ELSE IF Head(r.rest) = "]" THEN Parsed(Append(acc, r.value), Tail(r.rest))
             ELSE IF Head(r.rest) = "," THEN ParseRows(Tail(r.rest), Append(acc, r.value))
             ELSE Failed

\* JSON.parse on the texts of the model: a list of rows, or a SyntaxError
parse(t) ==
    LET r == IF t # <<>> /\ Head(t) = "[" THEN ParseRows(Tail(t), <<>>) ELSE Failed
    IN  IF r.ok /\ r.rest = <<>> THEN r ELSE Failed

\* the characters encodeURIComponent escapes, with their %XX codes
Escapes ==
    [c \in {"[", "]", "{", "}", "\"", ":", ",", "\\", "%", " "} |->
        CASE c = "[" -> <<"5", "B">> [] c = "]" -> <<"5", "D">>
          [] c = "{" -> <<"7", "B">> [] c = "}" -> <<"7", "D">>
          [] c = "\"" -> <<"2", "2">> [] c = ":" -> <<"3", "A">>
          [] c = "," -> <<"2", "C">> [] c = "\\" -> <<"5", "C">>
          [] c = "%" -> <<"2", "5">> [] c = " " -> <<"2", "0">>]

encodeURIComponentKeepsPercent(t) ==
    Flatten([n \in 1..Len(t) |->
                IF t[n] \in DOMAIN Escapes \ {"%"} THEN <<"%">> \o Escapes[t[n]] ELSE <<t[n]>>])

encodeURIComponent(t) ==
    Flatten([n \in 1..Len(t) |->
                IF t[n] \in DOMAIN Escapes THEN <<"%">> \o Escapes[t[n]] ELSE <<t[n]>>])

\* decodeURIComponent: a URIError on a % that two hex digits do not follow
RECURSIVE Decode(_, _)
Decode(t, acc) ==
    IF t = <<>> THEN Parsed(acc, <<>>)
    ELSE IF Head(t) # "%" THEN Decode(Tail(t), Append(acc, Head(t)))
    ELSE IF Len(t) >= 3 /\ \E c \in DOMAIN Escapes : Escapes[c] = <<t[2], t[3]>>
    THEN Decode(SubSeq(t, 4, Len(t)),
                Append(acc, CHOOSE c \in DOMAIN Escapes : Escapes[c] = <<t[2], t[3]>>))
    ELSE Failed

decodeURIComponent(t) == Decode(t, <<>>)

\* 'busdriver-message:'
Prefix == "busdriver-message:"

\* --------------------------------------------------- queue messages panel
\* QueueMessagesPanel.createOrShow(extensionUri, queue, connectionString)
createOrShow(queue, connectionString) ==
    /\ IF currentPanel # NoPanel
       THEN \* reveal the open panel and point it at the queue
            /\ currentPanel' = [currentPanel EXCEPT !.queue = queue.name,
                                                    !.connectionId = queue.connectionId]
            /\ UNCHANGED <<panels, nextPanel>>
       ELSE /\ nextPanel <= MaxPanels
            /\ panels' = panels \cup {nextPanel}
            /\ currentPanel' = [id |-> nextPanel, queue |-> queue.name,
                                connectionId |-> queue.connectionId,
                                connectionString |-> connectionString]
            /\ nextPanel' = nextPanel + 1
    /\ ViewUpdate(queue.name, currentPanel'.connectionString)
    /\ UNCHANGED <<queues, nextSeq, secrets, hostVars, ops, opVars, connVars, sendVars, posted, updates, dragVars>>

\* the busdriver.showQueueMessages command, and the tree's selection handler
showQueueMessages(item) ==
    LET connectionString == getConnectionString(item.queue.connectionId)
    IN  /\ connectionString # ""
        /\ createOrShow(item.queue, connectionString)

DisposedKeepsCurrent(p) == [currentPanel |-> currentPanel, panels |-> panels \ {p}]
\* dispose() of the QueueMessagesPanel that owns webview panel p
Disposed(p) == [currentPanel |-> NoPanel, panels |-> panels \ {p}]

\* the user closes webview panel p: onDidDispose calls dispose()
dispose(p) ==
    /\ p \in panels
    /\ currentPanel' = Disposed(p).currentPanel
    /\ panels' = Disposed(p).panels
    /\ displayed' = <<>>
    /\ inbox' = <<>>
    /\ handed' = NoHanded
    /\ UNCHANGED <<brokerVars, secrets, hostVars, ops, opVars, connVars, sendVars, posted, updVars, nextPanel, lastUpdate,
                   pendingDragMessage, dataTransfer>>

\* the webview's 'refresh' command, and refreshView()
refreshView ==
    /\ currentPanel # NoPanel
    /\ currentPanel.id \in panels
    /\ ViewUpdate(currentPanel.queue, currentPanel.connectionString)
    /\ UNCHANGED <<queues, nextSeq, secrets, hostVars, ops, opVars, connVars, sendVars, posted, updates, panels, currentPanel,
                   nextPanel, dragVars>>

\* ------------------------------------------------------ webview commands
\* the lists the webview script builds from the selected rows: Array.from
\* (selectedRows) in the order the rows were selected
Selections ==
    LET rows == 1..Min(Len(displayed), MaxSeq)
    IN  {[n \in DOMAIN pick |-> displayed[pick[n]]] :
            pick \in {b \in UNION {[1..n -> rows] : n \in 1..MaxBatch} :
                         \A m, n \in DOMAIN b : m # n => b[m] # b[n]}}

\* messages.forEach(msg => { msg.sourceQueue = ...; msg.sourceConnectionString = ... })
withSource(data) ==
    [n \in 1..Len(data) |->
        [data[n] EXCEPT !.sourceQueue = currentPanel.queue,
                        !.sourceConnectionString = currentPanel.connectionString]]

\* a batch reaches busdriver.moveMessageToQueue or busdriver.deleteMessages
Handed(path, data) ==
    [NoHanded EXCEPT !.path = path, !.sent = TRUE, !.messages = data,
                     !.queue = currentPanel.queue,
                     !.connectionString = currentPanel.connectionString]

\* moveSelectedMessage() / deleteSelectedMessages() of the webview script
\* post the selection, and the panel's onDidReceiveMessage runs the case of
\* that command; the buttons cannot be clicked while a drag is under way
postSelected(command) ==
    /\ currentPanel # NoPanel
    /\ ~dataTransfer.set
    /\ \E selectedMessages \in Selections :
          handed' = Handed(command, withSource(selectedMessages))
    /\ UNCHANGED <<brokerVars, secrets, hostVars, ops, opVars, connVars, sendVars, posted, updVars, viewVars, inbox,
                   pendingDragMessage, dataTransfer>>

moveSelectedMessage == postSelected("moveToQueue")
deleteSelectedMessages == postSelected("deleteMessages")

\* handleDragStart(event, index) of the webview script: posts 'startDrag'
\* and sets the two payloads of the drag
handleDragStart ==
    /\ currentPanel # NoPanel
    /\ ~dataTransfer.set
    /\ Len(inbox) < MaxInbox
    /\ \E messagesToDrag \in Selections :
          /\ inbox' = Append(inbox, [command |-> "startDrag", data |-> messagesToDrag])
          /\ dataTransfer' =
                [set |-> TRUE,
                 list |-> messagesToDrag,
                 uri |-> [present |-> TRUE,
                          value |-> <<Prefix>>
                                    \o encodeURIComponent(stringify(messagesToDrag))],
                 plain |-> [present |-> TRUE, value |-> stringify(messagesToDrag)]]
    /\ handed' = NoHanded
    /\ UNCHANGED <<brokerVars, secrets, hostVars, ops, opVars, connVars, sendVars, posted, updVars, viewVars, pendingDragMessage>>

\* the panel's onDidReceiveMessage handler, case 'startDrag'
startDrag ==
    /\ currentPanel # NoPanel
    /\ inbox # <<>>
    /\ Head(inbox).command = "startDrag"
    /\ pendingDragMessage' = [set |-> TRUE, data |-> Head(inbox).data]
    /\ inbox' = Tail(inbox)
    /\ handed' = NoHanded
    /\ UNCHANGED <<brokerVars, secrets, hostVars, ops, opVars, connVars, sendVars, posted, updVars, viewVars, dataTransfer>>

\* ------------------------------------------------------------- handleDrop
\* what the host hands over of a payload the webview set
UriKinds == {"intact", "absent", "no prefix", "cut list", "cut escape"}
PlainKinds == {"intact", "absent", "cut list"}

Delivered(payload, how) ==
    IF ~payload.present \/ how = "absent" THEN NoPayload
    ELSE [present |-> TRUE,
          value |-> CASE how = "intact" -> payload.value
                      [] how = "no prefix" -> Tail(payload.value)
                      [] how = "cut list" ->
                            SubSeq(payload.value, 1,
                                   Len(payload.value)
                                   - (IF Head(payload.value) = Prefix THEN 3 ELSE 1))
                      [] how = "cut escape" ->
                            SubSeq(payload.value, 1, Len(payload.value) - 1)]

\* the try block over text/uri-list: the parsed list, or not ok
FromUri(uri) ==
    IF uri.present /\ uri.value # <<>> /\ Head(uri.value) = Prefix
    THEN LET jsonData == decodeURIComponent(Tail(uri.value))
         IN  IF jsonData.ok THEN parse(jsonData.value) ELSE Failed
    ELSE Failed

\* the try block over text/plain
FromPlain(plain) == IF plain.present THEN parse(plain.value) ELSE Failed

\* the list handleDrop passes to processMessageMove, if it passes one
Dropped(uri, plain) ==
    IF pendingDragMessage.set THEN Parsed(pendingDragMessage.data, <<>>)
    ELSE IF FromUri(uri).ok THEN FromUri(uri)
    ELSE FromPlain(plain)

\* handleDrop(target, dataTransfer, _token) on a queue of the tree
\* (a drop that no drag of the panel ended in, text or a file dragged from
\* elsewhere, carries neither payload of the webview)
handleDrop(target, uriKind, plainKind) ==
    /\ dataTransfer.set \/ (uriKind = "absent" /\ plainKind = "absent")
    /\ LET uri == Delivered(dataTransfer.uri, uriKind)
           plain == Delivered(dataTransfer.plain, plainKind)
           r == Dropped(uri, plain)
       IN  handed' = [path |-> IF dataTransfer.set THEN "drop" ELSE "drop from elsewhere",
                      sent |-> r.ok, messages |-> r.value,
                      queue |-> currentPanel.queue,
                      connectionString |-> currentPanel.connectionString,
                      pending |-> pendingDragMessage.set,
                      uri |-> uriKind, plain |-> plainKind,
                      dragged |-> dataTransfer.list]
    /\ pendingDragMessage' = NoPending
    /\ dataTransfer' = NoTransfer
    /\ UNCHANGED <<brokerVars, secrets, hostVars, ops, opVars, connVars, sendVars, posted, updVars, viewVars, inbox>>

\* the drag ends without a drop on a queue of the tree
dragEnds ==
    /\ dataTransfer.set
    /\ dataTransfer' = NoTransfer
    /\ handed' = NoHanded
    /\ UNCHANGED <<brokerVars, secrets, hostVars, ops, opVars, connVars, sendVars, posted, updVars, viewVars, inbox,
                   pendingDragMessage>>

\* the panel open on PanelQueue, its rows peeked, nothing selected yet
DragInit ==
    /\ queues \in {[q \in QueueNames |-> IF q = PanelQueue THEN QueueOf(q, 1..n) ELSE <<>>] :
                       n \in 1..MaxSeq}
    /\ locked = {}
    /\ nextSeq = [q \in QueueNames |-> Len(queues[q]) + 1]
    /\ secrets = [id \in 1..MaxConnections |-> IF id = ConnId THEN CS ELSE ""]
    /\ OpInit
    /\ HostActive
    /\ ConnIdle
    /\ panels = {1}
    /\ currentPanel = [id |-> 1, queue |-> PanelQueue, connectionId |-> ConnId,
                       connectionString |-> CS]
    /\ nextPanel = 2
    /\ displayed = [n \in 1..Len(queues[PanelQueue]) |-> Row(queues[PanelQueue][n])]
    /\ lastUpdate = [count |-> Len(displayed), requested |-> maxPeek, calls |-> {"peek"},
                     connectionString |-> CS]
    /\ inbox = <<>>
    /\ pendingDragMessage = NoPending
    /\ dataTransfer = NoTransfer
    /\ handed = NoHanded
    /\ snapshot = NoSnapshot
    /\ sent = NotSent
    /\ posted = <<>>
    /\ title = PanelQueue
    /\ html = [heading |-> PanelQueue, peeked |-> PanelQueue, update |-> 0]
    /\ updates = <<>>

NextDrag ==
    \/ moveSelectedMessage
    \/ deleteSelectedMessages
    \/ handleDragStart
    \/ startDrag
    \/ \E uriKind \in UriKinds, plainKind \in PlainKinds :
          handleDrop(DropTarget, uriKind, plainKind)
    \/ dragEnds
    \/ \E p \in 1..MaxPanels : dispose(p)

SpecDrag == DragInit /\ [][NextDrag]_vars

\* another client of the namespace sends a message to queue q
messageArrives(q) ==
    /\ nextSeq[q] <= Len(queues0[q]) + MaxArrivals
    /\ queues' = [queues EXCEPT ![q] = Append(@, BrokerMessage(q, nextSeq[q]))]
    /\ nextSeq' = [nextSeq EXCEPT ![q] = @ + 1]
    /\ UNCHANGED <<locked, secrets, hostVars, ops, opVars, connVars, sendVars, uiVars>>

\* the queue items of the tree: the queues listed under each connection
QueueTreeItems ==
    {[queue |-> [name |-> q, connectionId |-> c]] : q \in QueueNames, c \in 1..MaxConnections}

\* queue lengths the panel is opened on: short ones, and maxPeek and beyond
PanelSizes == (0..MaxSeq) \cup {maxPeek, maxPeek + 1}

PanelInit ==
    /\ queues \in {[q \in QueueNames |-> IF q = PanelQueue THEN QueueOf(q, 1..n) ELSE <<>>] :
                       n \in PanelSizes}
    /\ locked = {}
    /\ nextSeq = [q \in QueueNames |-> Len(queues[q]) + 1]
    /\ secrets = [id \in 1..MaxConnections |-> IF id = ConnId THEN CS ELSE OtherCS]
    /\ OpInit
    /\ HostActive
    /\ ConnIdle
    /\ UiIdle

NextPanel ==
    \/ \E item \in QueueTreeItems : showQueueMessages(item)
    \/ \E p \in 1..MaxPanels : dispose(p)
    \/ refreshView
    \/ \E q \in QueueNames : messageArrives(q)

SpecPanel == PanelInit /\ [][NextPanel]_vars

\* ------------------------------------------- _update, await by await
\* _update up to its await: the title is set, and _peekMessages has made its
\* receiver for this.queue.name and called peekMessages
beginUpdate(panel, caller) ==
    /\ Len(updates) < MaxUpdates
    /\ title' = panel.queue
    /\ updates' = Append(updates, [queue |-> panel.queue, caller |-> caller,
                                  stage |-> "peeking", rows |-> <<>>])

\* createOrShow up to the await of _update (an open panel), or up to the
\* _update the constructor starts and does not await (a new panel)
createOrShowBegins(queue, connectionString) ==
    /\ IF currentPanel # NoPanel
       THEN /\ currentPanel' = [currentPanel EXCEPT !.queue = queue.name,
                                                    !.connectionId = queue.connectionId]
            /\ UNCHANGED <<panels, nextPanel>>
       ELSE /\ nextPanel <= MaxPanels
            /\ panels' = panels \cup {nextPanel}
            /\ currentPanel' = [id |-> nextPanel, queue |-> queue.name,
                                connectionId |-> queue.connectionId,
                                connectionString |-> connectionString]
            /\ nextPanel' = nextPanel + 1
    /\ beginUpdate(currentPanel', "createOrShow")
    /\ UNCHANGED <<brokerVars, secrets, hostVars, ops, opVars, connVars, sendVars, posted, dragVars,
                   displayed, lastUpdate, html>>

showQueueMessagesBegins(item) ==
    LET connectionString == getConnectionString(item.queue.connectionId)
    IN  /\ connectionString # ""
        /\ createOrShowBegins(item.queue, connectionString)

\* the webview's 'refresh' command up to the await inside _update
refreshBegins ==
    /\ currentPanel # NoPanel
    /\ beginUpdate(currentPanel, "refresh")
    /\ UNCHANGED <<brokerVars, secrets, hostVars, ops, opVars, connVars, sendVars, posted, dragVars,
                   panels, currentPanel, nextPanel, displayed, lastUpdate, html>>

\* the broker answers the peek of update n
peekServed(n) ==
    /\ n \in DOMAIN updates
    /\ updates[n].stage = "peeking"
    /\ LET r == peekMessages(updates[n].queue, maxPeek)
       IN  updates' = [updates EXCEPT ![n].stage = "served",
                           ![n].rows = [k \in 1..Len(r.messages) |-> Row(r.messages[k])]]
    /\ UNCHANGED <<brokerVars, secrets, hostVars, ops, opVars, connVars, sendVars, posted, dragVars,
                   viewVars, title, html>>

\* what _getHtmlForWebview returns after its await: the heading reads
\* this.queue.name now, the rows are those of the receiver made before
htmlOf(n) == [heading |-> currentPanel.queue, peeked |-> updates[n].queue, update |-> n]

\* update n resumes after its await and assigns webview.html
updateFinishes(n) ==
    /\ n \in DOMAIN updates
    /\ updates[n].stage = "served"
    /\ html' = htmlOf(n)
    /\ displayed' = updates[n].rows
    /\ lastUpdate' = [count |-> Len(updates[n].rows), requested |-> maxPeek,
                      calls |-> {"peek"}, connectionString |-> currentPanel.connectionString]
    /\ updates' = [updates EXCEPT ![n].stage = "finished"]
    /\ UNCHANGED <<brokerVars, secrets, hostVars, ops, opVars, connVars, sendVars, posted, dragVars,
                   panels, currentPanel, nextPanel, title>>

NextUpdate ==
    \/ \E item \in QueueTreeItems : showQueueMessagesBegins(item)
    \/ refreshBegins
    \/ \E n \in 1..MaxUpdates : peekServed(n)
    \/ \E n \in 1..MaxUpdates : updateFinishes(n)
    \/ \E q \in QueueNames : messageArrives(q)

SpecUpdate == PanelInit /\ [][NextUpdate]_vars

\* ------------------------------------- bulk operations with the panel open
\* the webview is handed a message the extension posted: its script adds no
\* listener for 'message' events, so nothing of the page changes
webviewReceives ==
    /\ posted # <<>>
    /\ posted' = Tail(posted)
    /\ UNCHANGED <<brokerVars, secrets, hostVars, ops, opVars, connVars, sendVars, viewVars, dragVars,
                   updVars>>

\* the panel is open on PanelQueue and shows its messages
ViewInit ==
    /\ BrokerInit
    /\ secrets = [id \in 1..MaxConnections |-> IF id = ConnId THEN CS ELSE ""]
    /\ OpInit
    /\ HostActive
    /\ ConnIdle
    /\ panels = {1}
    /\ currentPanel = [id |-> 1, queue |-> PanelQueue, connectionId |-> ConnId,
                       connectionString |-> CS]
    /\ nextPanel = 2
    /\ displayed = [n \in 1..Len(queues[PanelQueue]) |-> Row(queues[PanelQueue][n])]
    /\ lastUpdate = [count |-> Len(displayed), requested |-> maxPeek, calls |-> {"peek"},
                     connectionString |-> CS]
    /\ inbox = <<>>
    /\ pendingDragMessage = NoPending
    /\ dataTransfer = NoTransfer
    /\ handed = NoHanded
    /\ snapshot = NoSnapshot
    /\ sent = NotSent
    /\ posted = <<>>
    /\ title = PanelQueue
    /\ html = [heading |-> PanelQueue, peeked |-> PanelQueue, update |-> 0]
    /\ updates = <<>>

NextView ==
    \/ Next
    \/ webviewReceives

SpecView == ViewInit /\ [][NextView]_vars

\* ------------------------------------------- sendMessageToQueue: the copy
\* the three keys sendMessageToQueue adds to the application properties
MetadataKeys == {"originalEnqueuedTime", "originalDeliveryCount", "originalSequenceNumber"}
PropertyKeys == {"k"} \cup MetadataKeys

\* Record<string, unknown>: any of the keys, each with a value
Properties == UNION {[K -> 0..MaxProp] : K \in SUBSET PropertyKeys}

\* the snapshots sendMessageToQueue can be given
SendInputs ==
    {[sequenceNumber |-> s, messageId |-> MsgId(PanelQueue, s), body |-> Bodies[b],
      properties |-> p, enqueuedTime |-> t, deliveryCount |-> d] :
        s \in 1..MaxSeq, b \in 1..Len(Bodies), p \in Properties,
        t \in 0..MaxProp, d \in 0..MaxProp}

\* { ...a, ...b }: the keys of both, with b's value where both have the key
Spread(a, b) ==
    [k \in DOMAIN a \cup DOMAIN b |-> IF k \in DOMAIN b THEN b[k] ELSE a[k]]

Metadata(messageData) ==
    [originalEnqueuedTime |-> messageData.enqueuedTime,
     originalDeliveryCount |-> messageData.deliveryCount,
     originalSequenceNumber |-> messageData.sequenceNumber]

\* const message = { body, messageId, applicationProperties }
PreparedMessageSpreadLast(messageData) ==
    [prepared |-> TRUE,
     body |-> messageData.body,
     messageId |-> messageData.messageId,
     applicationProperties |-> Spread(Metadata(messageData), messageData.properties)]
PreparedMessage(messageData) ==
    [prepared |-> TRUE,
     body |-> messageData.body,
     messageId |-> messageData.messageId,
     applicationProperties |-> Spread(messageData.properties, Metadata(messageData))]

\* sendMessageToQueue builds the message and passes it to sender.sendMessages
prepareMessage ==
    /\ snapshot # NoSnapshot
    /\ ~sent.prepared
    /\ sent' = PreparedMessage(snapshot)
    /\ UNCHANGED <<brokerVars, secrets, hostVars, ops, opVars, connVars, uiVars, snapshot>>

\* the copy is listed by the panel of the target queue: the row the webview
\* builds for it, under the sequence number s, enqueue time t and delivery
\* count d the broker gave the copy
rowOfCopy(s, t, d) ==
    /\ sent.prepared
    /\ snapshot' = [sequenceNumber |-> s, messageId |-> sent.messageId,
                    body |-> sent.body, properties |-> sent.applicationProperties,
                    enqueuedTime |-> t, deliveryCount |-> d]
    /\ sent' = NotSent
    /\ UNCHANGED <<brokerVars, secrets, hostVars, ops, opVars, connVars, uiVars>>

SendInit ==
    /\ queues = [q \in QueueNames |-> <<>>]
    /\ locked = {}
    /\ nextSeq = [q \in QueueNames |-> 1]
    /\ secrets = [id \in 1..MaxConnections |-> ""]
    /\ OpInit
    /\ HostActive
    /\ ConnIdle
    /\ panels = {}
    /\ currentPanel = NoPanel
    /\ nextPanel = 1
    /\ displayed = <<>>
    /\ lastUpdate = NoUpdate
    /\ inbox = <<>>
    /\ pendingDragMessage = NoPending
    /\ dataTransfer = NoTransfer
    /\ handed = NoHanded
    /\ snapshot \in SendInputs
    /\ sent = NotSent
    /\ posted = <<>>
    /\ UpdIdle

NextSend ==
    \/ prepareMessage
    \/ \E s \in 1..MaxSeq, t \in 0..MaxProp, d \in 0..MaxProp : rowOfCopy(s, t, d)

SpecSend == SendInit /\ [][NextSend]_vars

\* ------------------------------------------------------ reading the history
IsBulk == ranLoop /\ kind \in {"move", "delete"}

\* items whose loop body has run to its end
Finished == IF ranLoop THEN 1..Min(i - 1, Len(messages)) ELSE {}

\* the finished items up to n whose catch block did (ok = FALSE) or did not run
RECURSIVE Items(_, _)
Items(ok, n) ==
    IF n = 0 THEN <<>>
    ELSE IF n \in Finished /\ ((caught[n] = NoError) = ok)
    THEN Append(Items(ok, n - 1), n)
    ELSE Items(ok, n - 1)

Rank(ok, k) == Len(Items(ok, k))

\* is a message with this id in queue q
Holds(q, id) == \E n \in 1..Len(queues[q]) : queues[q][n].messageId = id

CopyAtTarget(msg) ==
    \E n \in 1..Len(queues[targetQueue]) :
        /\ queues[targetQueue][n].messageId = msg.messageId
        /\ queues[targetQueue][n].originalSequenceNumber = msg.sequenceNumber

\* item k's send and, where one is made, its source-queue deletion succeeded
ItemSucceeded(k) ==
    IF kind = "move"
    THEN /\ "send returned" \in calls[k]
         /\ HasSource(messages[k]) => "delete returned" \in calls[k]
    ELSE "delete returned" \in calls[k]

\* ------------------------------------------------------------------ claims
\* C1: a bulk move or bulk delete of N messages in which every item's send and
\* every item's source-queue deletion succeeds ends with exactly N entries in
\* the successful list and none in the failed list.
C1_AllSucceed ==
    (IsBulk /\ pc = "done" /\ \A k \in 1..Len(messages) : ItemSucceeded(k))
        => /\ Len(results.successful) = Len(messages)
           /\ Len(results.failed) = 0

C1_Witness ==
    /\ IsBulk /\ pc = "done" /\ kind = "move"
    /\ Len(messages) >= 2
    /\ \A k \in 1..Len(messages) : ItemSucceeded(k) /\ HasSource(messages[k])
    /\ Len(results.successful) = Len(messages)

NotFoundCase(k) ==
    /\ k \in Finished
    /\ HasSource(messages[k])
    /\ "send returned" \in calls[k]
    /\ "receive" \in calls[k]
    /\ "complete" \notin calls[k]
    /\ "call threw" \notin calls[k]

\* C3: in a bulk move, when the send of item k succeeds but the scan does not
\* find item k's sequence number, item k is in the failed list, is not counted
\* in the successful list, and its copy stays in the target queue.
C3_NotFound ==
    kind = "move" =>
        \A k \in 1..Len(messages) :
            NotFoundCase(k) =>
                /\ caught[k] = NotFoundError(messages[k].sequenceNumber)
                /\ Rank(FALSE, k) \in 1..Len(results.failed)
                /\ results.failed[Rank(FALSE, k)] =
                      [message |-> messages[k], error |-> caught[k]]
                /\ Len(results.successful) = Len(Items(TRUE, Len(messages)))
                /\ CopyAtTarget(messages[k])

C3_Witness ==
    /\ kind = "move" /\ pc = "item"
    /\ ret.called /\ ret.attempts = maxAttempts
    /\ ret.error = NotFoundError(ret.sequenceNumber)
    /\ NotFoundCase(i - 1)
    /\ CopyAtTarget(messages[i - 1])

\* C4: when deleteMessageFromQueue returns, every message it received whose
\* sequence number differs from the target has been abandoned and none of
\* them has been completed.
C4_OthersReturned ==
    ret.called =>
        \A s \in ret.seen \ {ret.sequenceNumber} :
            s \notin ret.held /\ s \notin ret.completed

\* C5: during a bulk move, each message of the batch that was in its source
\* queue when the batch started is in the source queue or in the target queue.
C5_NeverLost ==
    (ranLoop /\ kind = "move") =>
        \A k \in 1..Len(messages) :
            (\E n \in 1..Len(queues0[PanelQueue]) :
                queues0[PanelQueue][n].messageId = messages[k].messageId)
            => Holds(PanelQueue, messages[k].messageId)
                  \/ Holds(targetQueue, messages[k].messageId)

C5_Witness ==
    /\ kind = "move" /\ targetQueue # PanelQueue
    /\ \E k \in Finished :
          /\ "complete" \in calls[k]
          /\ ~Holds(PanelQueue, messages[k].messageId)
          /\ Holds(targetQueue, messages[k].messageId)

\* how often the snapshot m occurs in the sequence of snapshots q
RECURSIVE Count(_, _)
Count(q, m) ==
    IF q = <<>> THEN 0
    ELSE (IF Head(q) = m THEN 1 ELSE 0) + Count(Tail(q), m)

FailedMessages == [n \in 1..Len(results.failed) |-> results.failed[n].message]

\* every input message is in exactly one outcome list, and was attempted once
Partitioned ==
    /\ Len(results.successful) + Len(results.failed) = Len(messages)
    /\ \A m \in MessageData :
          Count(messages, m) = Count(results.successful, m) + Count(FailedMessages, m)
    /\ \A k \in 1..Len(messages) : started[k] = 1

\* C6, as stated: whenever a bulk move or bulk delete finishes, every message
\* of the batch is in exactly one outcome list and was attempted exactly once.
C6_Original ==
    (kind \in {"move", "delete"} /\ pc = "done") => Partitioned

\* C6, amended: a bulk move or bulk delete that ran its item loop ends with
\* every message of the batch in exactly one outcome list, attempted once.
C6_Partition ==
    (IsBulk /\ pc = "done") => Partitioned

C6_Witness ==
    /\ IsBulk /\ pc = "done"
    /\ Len(results.successful) >= 1
    /\ Len(results.failed) >= 1

\* C7: a bulk move or bulk delete that runs its item loop shows exactly one
\* notification, at its end: information when nothing failed, error when
\* nothing succeeded and something failed, warning with every failing id and
\* its error text otherwise.
C7_OneNotification ==
    IsBulk =>
        IF pc # "done" THEN notifications = <<>>
        ELSE /\ Len(notifications) = 1
             /\ LET n == notifications[1]
                    r == results
                IN  /\ Len(r.failed) = 0 => n.severity = "information"
                    /\ (Len(r.successful) = 0 /\ Len(r.failed) > 0) => n.severity = "error"
                    /\ (Len(r.successful) > 0 /\ Len(r.failed) > 0) =>
                          /\ n.severity = "warning"
                          /\ n.details = [k \in 1..Len(r.failed) |->
                                <<r.failed[k].message.messageId, r.failed[k].error>>]

C7_Witness ==
    /\ IsBulk /\ pc = "done"
    /\ Len(notifications) = 1
    /\ notifications[1].severity = "warning"
    /\ Len(notifications[1].details) >= 1

\* both outcome lists hold their items in input order
OrderKept ==
    IsBulk =>
        /\ results.successful =
              [n \in 1..Len(Items(TRUE, Len(messages))) |->
                  messages[Items(TRUE, Len(messages))[n]]]
        /\ results.failed =
              [n \in 1..Len(Items(FALSE, Len(messages))) |->
                  [message |-> messages[Items(FALSE, Len(messages))[n]],
                   error |-> caught[Items(FALSE, Len(messages))[n]]]]

\* C8: items are processed one after another in input order (every broker
\* call is made for the current item, and the current item only moves
\* forward), and both outcome lists keep the order of the input batch.
C8_Sequential ==
    /\ [](OrderKept /\ lastCallItem <= i)
    /\ [][/\ i' >= i
          /\ lastCallItem' >= lastCallItem
          /\ \A k \in DOMAIN calls :
                (k \in DOMAIN calls' /\ calls'[k] # calls[k]) => (k = i /\ lastCallItem' = i)
         ]_vars

C8_Witness ==
    /\ IsBulk /\ pc = "done"
    /\ Len(messages) >= 2
    /\ messages[1] # messages[2]
    /\ Len(results.successful) >= 2
    /\ lastCallItem = Len(messages)

\* C9: in a bulk move, a bulk delete and a drag-and-drop move, a failing item
\* does not stop the operation: every item of the batch is attempted.
C9_AllAttempted ==
    (ranLoop /\ pc = "done") => \A k \in 1..Len(messages) : started[k] >= 1

\* C9 restricted to the two command handlers, which catch per item
C9_CommandsContinue ==
    (IsBulk /\ pc = "done") => \A k \in 1..Len(messages) : started[k] >= 1

\* C10: every entry of the 'connections' value in globalState has an empty
\* connectionString, after any sequence of adds, deletes and reloads.
C10_NoSecretInState ==
    \A n \in 1..Len(globalState) : globalState[n].connectionString = ""

C10_Witness ==
    /\ Len(globalState) >= 1
    /\ Len(connections) = Len(globalState)
    /\ \A n \in 1..Len(globalState) :
          /\ connections[n].connectionString # ""
          /\ secrets[globalState[n].id] = connections[n].connectionString

\* C11: every connection listed in the persisted metadata has its connection
\* string, non-empty and as entered, in the secret store under its id, and
\* getConnectionString returns it, after any adds, deletes and reloads.
C11_SecretsKept ==
    \A n \in 1..Len(globalState) :
        /\ secrets[globalState[n].id] # ""
        /\ secrets[globalState[n].id] = entered[globalState[n].id]
        /\ getConnectionString(globalState[n].id) = entered[globalState[n].id]

\* C12: a connection deleteConnection removed is gone from both stores: no
\* metadata entry has its id and the secret store holds nothing under its id.
C12_DeletedGone ==
    \A id \in removed :
        /\ ~(\E n \in 1..Len(globalState) : globalState[n].id = id)
        /\ secrets[id] = ""

\* C17: no connection of the in-memory list has an empty name and no two have
\* the same name, after any adds (overlapping prompts included) and deletes.
C17_NamesUnique ==
    \A n \in 1..Len(connections) :
        /\ connections[n].name # ""
        /\ \A m \in 1..Len(connections) :
              m # n => connections[m].name # connections[n].name

\* C18: a view update makes one peek of at most maxPeek messages and no
\* receive, complete or abandon; opening and refreshing the panel any number
\* of times leaves the queue's messages, and their locks, as they were.
C18_PeekOnly ==
    /\ [](/\ Len(displayed) <= maxPeek
          /\ lastUpdate # NoUpdate =>
                /\ lastUpdate.calls = {"peek"}
                /\ lastUpdate.requested <= maxPeek
                /\ lastUpdate.count <= maxPeek)
    /\ [][viewVars' # viewVars => (queues' = queues /\ locked' = locked)]_vars

C18_Witness ==
    /\ currentPanel # NoPanel
    /\ Len(queues[currentPanel.queue]) > maxPeek
    /\ lastUpdate.count = maxPeek
    /\ Len(displayed) = maxPeek
    /\ nextPanel > 2
    /\ queues # queues0

\* C20: at most one webview panel exists, and currentPanel refers to it
\* exactly when it is open.
C20_SinglePanel ==
    /\ Cardinality(panels) <= 1
    /\ currentPanel # NoPanel => panels = {currentPanel.id}
    /\ currentPanel = NoPanel => panels = {}

C20_Witness ==
    /\ nextPanel = 3
    /\ currentPanel # NoPanel
    /\ currentPanel.id = 2
    /\ panels = {2}

\* C13: the rows the panel only displays carry no provenance fields, and
\* every batch that reaches a move or delete path (webview 'moveToQueue',
\* 'deleteMessages', a drag dropped on a queue) carries on each message the
\* panel's queue and connection string.
C13_Provenance ==
    /\ \A n \in 1..Len(displayed) :
          displayed[n].sourceQueue = NoQueue /\ displayed[n].sourceConnectionString = ""
    /\ handed.sent =>
          \A n \in 1..Len(handed.messages) :
              /\ handed.messages[n].sourceQueue # NoQueue
              /\ handed.messages[n].sourceQueue = handed.queue
              /\ handed.messages[n].sourceConnectionString # ""
              /\ handed.messages[n].sourceConnectionString = handed.connectionString

\* C14: on both move paths a message is reported as moved only after a
\* removal of the original from its source queue was attempted.
C14_RemovalAttempted ==
    /\ (kind = "move" /\ ranLoop) =>
          \A k \in Finished :
              (caught[k] = NoError /\ HasSource(messages[k])) => "receive" \in calls[k]
    /\ (kind = "drop" /\ pc = "done" /\ Len(notifications) = 1
          /\ notifications[1].severity = "information") =>
          \A k \in 1..Len(messages) : "receive" \in calls[k]

\* C19: with no pending drag stored, handleDrop moves the list the webview
\* encoded: the text/uri-list payload decodes to the dragged list; when that
\* payload is absent, lacks the prefix or does not parse, the text/plain
\* payload is used; when neither parses nothing is sent.
C19_DropDecodes ==
    (handed.path = "drop" /\ ~handed.pending) =>
        /\ handed.uri = "intact" =>
              handed.sent /\ handed.messages = handed.dragged
        /\ (handed.uri # "intact" /\ handed.plain = "intact") =>
              handed.sent /\ handed.messages = handed.dragged
        /\ (handed.uri # "intact" /\ handed.plain # "intact") => ~handed.sent

C19_Witness ==
    /\ handed.path = "drop" /\ ~handed.pending
    /\ handed.uri = "intact" /\ handed.plain = "absent"
    /\ handed.sent
    /\ Len(handed.messages) >= 2
    /\ handed.messages = handed.dragged
    /\ \E n \in 1..Len(handed.messages) : handed.messages[n].body = <<"%", "2", "2">>

AggregateShown ==
    /\ Len(notifications) = 1
    /\ notifications[1] = ResultNotification(results, Len(messages))

\* the receiveMessages calls of one deleteMessageFromQueue call, given as the
\* message counts they asked for: at most 5 calls, of at most 100 each
FewReceives(requested) ==
    /\ Len(requested) <= 5
    /\ \A n \in 1..Len(requested) : requested[n] <= 100

\* every deleteMessageFromQueue call, running or returned, has made at most 5
\* receive calls of at most 100 messages; its loop goes round again only when
\* the target was not completed and the last receive returned messages; the
\* operation calls it once per item at most, which bounds the receive calls
\* of an operation on N messages by 5 * N
ReceivesBounded ==
    /\ FewReceives(del.receives)
    /\ FewReceives(ret.receives)
    /\ pc = "recv" =>
          /\ ~del.found
          /\ Len(del.receives) > 0 => Len(del.received) > 0
    /\ ret.called => Len(ret.receives) >= 1
    /\ \A k \in DOMAIN started : started[k] <= 1

\* C16 as stated: the receive bounds hold, and every bulk move or bulk delete
\* whose handler has ended has shown its aggregate notification.
C16_Original ==
    /\ ReceivesBounded
    /\ (kind \in {"move", "delete"} /\ pc \in {"done", "threw"}) => AggregateShown

\* C16 (amended): every deleteMessageFromQueue call ends after at most 5
\* receive calls of at most 100 messages each and scans no further once the
\* target is completed or a receive returns nothing, so a bulk move or delete
\* of N messages makes at most 5 * N receive calls; and a bulk move or delete
\* that entered its item loop always reaches its aggregate notification.
C16_Terminates ==
    /\ []ReceivesBounded
    /\ IsBulk ~> (IsBulk /\ pc = "done" /\ AggregateShown)

C16_Witness ==
    /\ IsBulk
    /\ pc = "done"
    /\ AggregateShown
    /\ Len(messages) = 2
    /\ ret.called
    /\ Len(ret.receives) = 5
    /\ ret.error = NotFoundError(ret.sequenceNumber)
    /\ "delete returned" \in calls[1]

\* C26: a drop on a queue moves only the messages of the drag gesture that
\* ended in that drop (nothing when no drag of the panel ended in it), and the
\* drop leaves no pending drag stored.
C26_OwnGesture ==
    handed.path \in {"drop", "drop from elsewhere"} =>
        /\ handed.sent => handed.messages = handed.dragged
        /\ ~pendingDragMessage.set

\* C28: a deleteMessageFromQueue call whose target is in the source queue and
\* unlocked when the call begins, the queue holding at most 500 messages and
\* no broker call failing, completes exactly the target and returns without
\* error.  (Stated for the first item of a bulk delete, whose call begins on
\* the queue as the operation found it.)
C28_FoundWhenPresent ==
    (/\ kind = "delete" /\ ranLoop /\ pc = "item" /\ i = 2
     /\ ret.called
     /\ faults = 0
     /\ Len(queues0[ret.queueName]) <= 500
     /\ \E n \in 1..Len(queues0[ret.queueName]) :
           queues0[ret.queueName][n].sequenceNumber = ret.sequenceNumber) =>
        /\ ret.error = NoError
        /\ ret.completed = {ret.sequenceNumber}

\* C30: no broker client, sender or receiver that sendMessageToQueue or
\* deleteMessageFromQueue opened is still open once the call has returned or
\* thrown.
C30_AllClosed ==
    pc \in {"item", "done"} => open = {}

\* C22: deleteMessages on a batch in which some message lacks its source
\* queue or its source connection string, or on an empty batch, shows an
\* error, makes no broker call and deletes nothing; on any other batch every
\* deleteMessageFromQueue call is made on the source queue of its own message.
C22_AllVerified ==
    kind = "delete" =>
        IF Len(messages) = 0 \/ \E k \in 1..Len(messages) : ~HasSource(messages[k])
        THEN /\ pc \in {"done", "threw"}
             /\ Len(notifications) = 1
             /\ notifications[1].severity = "error"
             /\ queues = queues0
             /\ \A k \in 1..Len(messages) : calls[k] = {}
        ELSE /\ pc = "recv" => del.queueName = messages[i].sourceQueue
             /\ ret.called => ret.queueName = messages[lastCallItem].sourceQueue

\* C25: the connection string the open panel peeks with, and attaches to the
\* messages it hands on, is the one stored for the connection that the
\* panel's queue.connectionId names.
C25_PanelConnection ==
    currentPanel # NoPanel =>
        /\ currentPanel.connectionString = getConnectionString(currentPanel.connectionId)
        /\ lastUpdate.connectionString = getConnectionString(currentPanel.connectionId)

\* C23: once a bulk move with at least one successful message has ended with
\* the panel open, and the webview has been handed every 'removeMessage'
\* message posted for it, no successfully moved message is among the rows the
\* panel displays.
C23_RowsRemoved ==
    (/\ kind = "move" /\ ranLoop /\ pc = "done"
     /\ currentPanel # NoPanel
     /\ Len(results.successful) > 0
     /\ posted = <<>>) =>
        \A k \in 1..Len(results.successful) : \A n \in 1..Len(displayed) :
            displayed[n].sequenceNumber # results.successful[k].sequenceNumber

\* C21: once activate has run, the six commands are registered with the host.
C21_Registered ==
    isActive =>
        {"busdriver.addConnection", "busdriver.refresh", "busdriver.deleteConnection",
         "busdriver.showQueueMessages", "busdriver.moveMessageToQueue",
         "busdriver.deleteMessages"} \subseteq registered

C21_Witness ==
    /\ isActive
    /\ dialog.command = "busdriver.deleteMessages"
    /\ kind = "delete"
    /\ pc = "done"

\* a broker call was made, or a message added, removed or locked
BrokerTouched ==
    \/ queues # queues0
    \/ locked # {}
    \/ faults # 0
    \/ open # {}
    \/ \E k \in DOMAIN calls : calls[k] # {}

\* C24: busdriver.deleteMessages makes no broker call and removes nothing
\* unless the user answered 'Delete' to the modal; busdriver.moveMessageToQueue
\* sends nothing when no target queue was picked, and nothing when the target
\* queue's connection string is not found.
C24_NothingUnlessConfirmed ==
    /\ (dialog.command = "busdriver.deleteMessages" /\ dialog.answer # "Delete") =>
          kind = "none" /\ ~BrokerTouched
    /\ (dialog.command = "busdriver.moveMessageToQueue" /\ dialog.answer \notin QueueNames) =>
          kind = "none" /\ ~BrokerTouched
    /\ (kind = "move" /\ getConnectionString(ConnId) = "") =>
          pc = "done" /\ ~BrokerTouched

C24_Witness ==
    /\ dialog.command = "busdriver.deleteMessages"
    /\ dialog.answer = "dismissed"
    /\ Len(dialog.data) > 0
    /\ Len(queues[PanelQueue]) > 0

AllFinished == \A n \in DOMAIN updates : updates[n].stage = "finished"

\* C27: once every _update begun on the open panel has finished, the title
\* and the html both show the panel's current queue, and the html is the one
\* produced by the update begun last.
C27_LatestShown ==
    (currentPanel # NoPanel /\ Len(updates) > 1 /\ AllFinished) =>
        /\ title = currentPanel.queue
        /\ html.heading = currentPanel.queue
        /\ html.peeked = currentPanel.queue
        /\ html.update = Len(updates)

\* C29: of two deleteMessageFromQueue calls interleaved on one queue, each
\* finds and completes its own message, which was in the queue when it began,
\* and completes no other.
C29_NoSpuriousFailure ==
    \A p \in Callers :
        /\ ops[p].completed \subseteq {ops[p].sequenceNumber}
        /\ ops[p].pc = "done" => ops[p].error = NoError /\ ops[p].found

====
